---- MODULE Spec2Model ----
(***************************************************************************)
(* A model of the witness-generation BlockProcessor of powdr               *)
(* (executor/src/witgen/block_processor.rs).                               *)
(*                                                                         *)
(* The processor owns a table `data` of rows, a list of polynomial         *)
(* identities, optionally an outer query, and is driven by a sequence      *)
(* iterator: every iteration of the loop of `solve` is one action.         *)
(* The collaborators whose code is not part of the sources at hand (field  *)
(* arithmetic, affine expressions, the identity processor, the query       *)
(* processor, the row updater, the default sequence iterator) are modelled *)
(* from the design specification.                                          *)
(***************************************************************************)
EXTENDS Integers, Sequences, FiniteSets, TLC

(***************************************************************************)
(* Bounds of the model.                                                    *)
(***************************************************************************)
\* Number of rows of the table in every program but Fibonacci and hint.
BlockLen == 4
\* Number of rows of the table of the program hint.
HintLen == 3
\* The passes of the sequence iterator the model follows: a solve that keeps
\* reporting progress is cut off after MaxPasses passes.
MaxPasses == 4
\* The oracle answers a prover query with one of the values 7 .. 7 + OracleSpan.
OracleSpan == 1

(***************************************************************************)
(* Program constants.                                                      *)
(***************************************************************************)
\* `constant %N = 8;` of test_fibonacci.
FibDegree == 8
\* The field.  The test runs over GoldilocksField; every value the modelled
\* programs produce is below 37, so a prime modulus of 37 gives the same
\* results as the Goldilocks modulus on them.
FieldModulus == 37

Field == 0 .. (FieldModulus - 1)

FAdd(a, b) == (a + b) % FieldModulus
FSub(a, b) == (a + FieldModulus - b) % FieldModulus
FMul(a, b) == (a * b) % FieldModulus
FNeg(a) == (FieldModulus - a) % FieldModulus
FInv(a) == CHOOSE v \in Field : FMul(a, v) = 1

(***************************************************************************)
(* Algebraic expressions: a tagged tree                                    *)
(*   <<"num", n>>, <<"ref", column, next>>, <<"add"|"sub"|"mul", l, r>>.   *)
(***************************************************************************)
Num(n) == <<"num", n>>
Ref(c) == <<"ref", c, FALSE>>
Nxt(c) == <<"ref", c, TRUE>>
Add(l, r) == <<"add", l, r>>
Sub(l, r) == <<"sub", l, r>>
Mul(l, r) == <<"mul", l, r>>

(***************************************************************************)
(* The programs (inputs) the processor is run on.                          *)
(*   fib      test_fibonacci                                               *)
(*   unsat    a counter with a constraint that contradicts it on row 2     *)
(*   nonlin   a product of two unknown cells, resolved later on row 0 only *)
(*   query    a column with a prover query and a column derived from it    *)
(*   outer    a doubling machine called through an outer query             *)
(*   outerrc  an outer query against a range-constrained unknown cell      *)
(*   outerid  an identity that mentions a column of the caller             *)
(*   outerbad an outer query whose two inputs contradict each other        *)
(*   outerunsat an outer query that contradicts a cell already solved      *)
(*   counter  a counter that is not guarded on the last row                *)
(*   bool     a column constrained only by a * (a - 1) = 0                 *)
(*   hint     two columns with a prover query each and no identities       *)
(*   wrap     a counter seeded on the last row, with a sequence iterator   *)
(*            that also yields the last row of the table                   *)
(***************************************************************************)
Scenarios ==
    {"fib", "unsat", "nonlin", "query", "outer", "outerrc", "outerid", "outerbad",
     "outerunsat", "counter", "bool", "hint", "wrap"}

\* data.len()
DataLen(s) ==
    CASE s = "fib" -> FibDegree
      [] s = "hint" -> HintLen
      [] OTHER -> BlockLen

\* row_offset: the global index of the first row of data.
RowOffset == 0

FixedCols == {"ISFIRST", "ISLAST", "SEL"}

\* The value of a fixed column at a global row (cyclic in the degree).
FixedValue(s, col, g) ==
    LET i == g % DataLen(s) IN
    CASE col = "ISFIRST" -> IF i = 0 THEN 1 ELSE 0
      [] col = "ISLAST" -> IF i = DataLen(s) - 1 THEN 1 ELSE 0
      [] OTHER -> IF i = 2 THEN 1 ELSE 0

\* witness_cols: the witness columns that are part of this machine,
\* in the order of fixed_data.witness_cols.keys().
OwnedSeq(s) ==
    CASE s = "fib" -> <<"x", "y">>
      [] s \in {"unsat", "counter", "outerunsat", "bool", "wrap"} -> <<"a">>
      [] s = "query" -> <<"q", "r">>
      [] s = "hint" -> <<"q", "p">>
      [] OTHER -> <<"a", "b">>

\* The witness columns of the caller that the machine sees.
OuterSeq(s) ==
    CASE s \in {"outer", "outerrc", "outerid"} -> <<"B">>
      [] OTHER -> <<>>

SeqRange(q) == {q[i] : i \in 1 .. Len(q)}
Owned(s) == SeqRange(OwnedSeq(s))
\* fixed_data.witness_cols: every witness column of the analyzed program.
WitnessSeq(s) == OwnedSeq(s) \o OuterSeq(s)
Witness(s) == SeqRange(WitnessSeq(s))

\* The variables of an affine expression: references into the row pair.
\* In the order: current row first, then next row; columns in program order.
VarSeq(s) ==
    [i \in 1 .. 2 * Len(WitnessSeq(s)) |->
        IF i <= Len(WitnessSeq(s))
        THEN <<WitnessSeq(s)[i], FALSE>>
        ELSE <<WitnessSeq(s)[i - Len(WitnessSeq(s))], TRUE>>]
Vars(s) == SeqRange(VarSeq(s))

\* The polynomial identities, each normalised to `expr = 0`.
Identities(s) ==
    CASE s = "fib" ->
           << Mul(Ref("ISFIRST"), Sub(Ref("y"), Num(1))),
              Mul(Ref("ISFIRST"), Sub(Ref("x"), Num(1))),
              Mul(Sub(Num(1), Ref("ISLAST")), Sub(Nxt("x"), Ref("y"))),
              Mul(Sub(Num(1), Ref("ISLAST")),
                  Sub(Nxt("y"), Add(Ref("x"), Ref("y")))) >>
      [] s = "unsat" ->
           << Mul(Ref("ISFIRST"), Sub(Ref("a"), Num(1))),
              Sub(Nxt("a"), Add(Ref("a"), Num(1))),
              Mul(Ref("SEL"), Sub(Ref("a"), Num(5))) >>
      [] s = "nonlin" ->
           << Mul(Ref("a"), Sub(Ref("b"), Num(1))),
              Mul(Ref("ISFIRST"), Sub(Ref("b"), Num(2))) >>
      [] s = "query" ->
           << Sub(Ref("r"), Add(Ref("q"), Num(1))) >>
      [] s = "outer" ->
           << Sub(Ref("b"), Add(Ref("a"), Ref("a"))) >>
      [] s = "outerrc" ->
           << Sub(Ref("a"), Ref("b")),
              Mul(Ref("SEL"), Sub(Ref("b"), Num(1))) >>
      [] s = "counter" ->
           << Mul(Ref("ISFIRST"), Sub(Ref("a"), Num(1))),
              Sub(Nxt("a"), Add(Ref("a"), Num(1))) >>
      [] s = "outerunsat" ->
           << Mul(Ref("ISFIRST"), Sub(Ref("a"), Num(3))) >>
      [] s = "bool" ->
           << Mul(Ref("a"), Sub(Ref("a"), Num(1))) >>
      [] s = "hint" -> << >>
      [] s = "wrap" ->
           << Mul(Ref("ISLAST"), Sub(Ref("a"), Num(1))),
              Sub(Nxt("a"), Add(Ref("a"), Num(1))) >>
      [] s = "outerid" ->
           << Mul(Ref("ISFIRST"), Sub(Ref("a"), Num(2))),
              Mul(Ref("ISFIRST"), Sub(Ref("B"), Add(Ref("a"), Num(1)))) >>
      [] OTHER -> << Sub(Ref("b"), Ref("a")) >>

\* The columns with a registered prover query.
QueryCols(s) ==
    CASE s = "query" -> {"q"}
      [] s = "hint" -> {"q", "p"}
      [] OTHER -> {}

\* The global range constraints the row factory seeds fresh rows with.
GlobalRange(s, col) ==
    IF s = "outerrc" /\ col = "b" THEN {0, 1} ELSE Field

\* Whether the caller has an outer query for this machine, and the row delta
\* on which the sequence iterator schedules it (outer_query_row).
HasOuterQuery(s) ==
    s \in {"outer", "outerrc", "outerid", "outerbad", "outerunsat"}
OuterQueryRowDelta(s) == -1

(***************************************************************************)
(* Affine expressions: sum of c[v] * v over the variables v, plus k.       *)
(* nl marks the failure NonLinear (a product of two non-constant affines). *)
(***************************************************************************)
ZeroCoeffs(s) == [v \in Vars(s) |-> 0]
AffConst(s, n) == [nl |-> FALSE, k |-> n % FieldModulus, c |-> ZeroCoeffs(s)]
AffVar(s, v) ==
    [nl |-> FALSE, k |-> 0, c |-> [ZeroCoeffs(s) EXCEPT ![v] = 1]]
AffNonLinear(s) == [nl |-> TRUE, k |-> 0, c |-> ZeroCoeffs(s)]
IsConstant(a) == ~a.nl /\ \A v \in DOMAIN a.c : a.c[v] = 0

AffAdd(s, a, b) ==
    IF a.nl \/ b.nl THEN AffNonLinear(s)
    ELSE [nl |-> FALSE, k |-> FAdd(a.k, b.k),
          c |-> [v \in Vars(s) |-> FAdd(a.c[v], b.c[v])]]
AffSub(s, a, b) ==
    IF a.nl \/ b.nl THEN AffNonLinear(s)
    ELSE [nl |-> FALSE, k |-> FSub(a.k, b.k),
          c |-> [v \in Vars(s) |-> FSub(a.c[v], b.c[v])]]
AffScale(s, a, n) ==
    [nl |-> FALSE, k |-> FMul(a.k, n), c |-> [v \in Vars(s) |-> FMul(a.c[v], n)]]
AffMul(s, a, b) ==
    IF a.nl \/ b.nl THEN AffNonLinear(s)
    ELSE IF IsConstant(a) THEN AffScale(s, b, a.k)
    ELSE IF IsConstant(b) THEN AffScale(s, a, b.k)
    ELSE AffNonLinear(s)

\* AffineExpression::assign: substitute a now-known value for a variable.
AffAssign(a, v, val) ==
    [nl |-> a.nl, k |-> FAdd(a.k, FMul(a.c[v], val)), c |-> [a.c EXCEPT ![v] = 0]]

(***************************************************************************)
(* Rows.  A cell is {value: Option<F>, range}: known = FALSE is None.      *)
(***************************************************************************)
\* RowFactory::fresh_row
FreshRow(s) ==
    [col \in Witness(s) |->
        [known |-> FALSE, value |-> 0, range |-> GlobalRange(s, col)]]

\* The cell a reference denotes in the row pair (data[i], data[i + 1]).
CellOf(d, i, v) == d[IF v[2] THEN i + 1 ELSE i][v[1]]

\* RowPair::evaluate at local row i; zero = TRUE is UnknownStrategy::Zero.
RECURSIVE Evaluate(_, _, _, _, _)
Evaluate(s, d, e, i, zero) ==
    CASE e[1] = "num" -> AffConst(s, e[2])
      [] e[1] = "ref" ->
           IF e[2] \in FixedCols
           THEN AffConst(s, FixedValue(s, e[2],
                                       RowOffset + i + (IF e[3] THEN 1 ELSE 0)))
           ELSE LET cell == CellOf(d, i, <<e[2], e[3]>>) IN
                IF cell.known THEN AffConst(s, cell.value)
                ELSE IF zero THEN AffConst(s, 0)
                ELSE AffVar(s, <<e[2], e[3]>>)
      [] e[1] = "add" ->
           AffAdd(s, Evaluate(s, d, e[2], i, zero), Evaluate(s, d, e[3], i, zero))
      [] e[1] = "sub" ->
           AffSub(s, Evaluate(s, d, e[2], i, zero), Evaluate(s, d, e[3], i, zero))
      [] OTHER ->
           AffMul(s, Evaluate(s, d, e[2], i, zero), Evaluate(s, d, e[3], i, zero))

(***************************************************************************)
(* Constraints produced by solving, and AffineExpression::solve.           *)
(***************************************************************************)
Assignment(v, val) == [var |-> v, assign |-> TRUE, value |-> val, range |-> {}]
RangeConstraint(v, r) == [var |-> v, assign |-> FALSE, value |-> 0, range |-> r]

EvalOk(cons) == [err |-> FALSE, cons |-> cons]
EvalErr == [err |-> TRUE, cons |-> <<>>]

Unknowns(a) == {v \in DOMAIN a.c : a.c[v] # 0}

\* The sum of c[u] * f[u] over the variables q[1..n] that are in U.
RECURSIVE TermSum(_, _, _, _, _)
TermSum(a, U, f, q, n) ==
    IF n = 0 THEN 0
    ELSE FAdd(TermSum(a, U, f, q, n - 1),
              IF q[n] \in U THEN FMul(a.c[q[n]], f[q[n]]) ELSE 0)

\* The values of x for which the others can be chosen within their ranges so
\* that the expression vanishes.
Feasible(s, a, rng, x) ==
    LET others == Unknowns(a) \ {x} IN
    IF \E u \in others : rng[u] = Field THEN rng[x]
    ELSE {val \in rng[x] :
            \E f \in [others -> Field] :
                /\ \A u \in others : f[u] \in rng[u]
                /\ FAdd(FAdd(FMul(a.c[x], val),
                             TermSum(a, others, f, VarSeq(s), Len(VarSeq(s)))),
                        a.k) = 0}

RECURSIVE RangeHints(_, _, _, _)
RangeHints(s, a, rng, n) ==
    IF n = 0 THEN <<>>
    ELSE LET x == VarSeq(s)[n]
             rest == RangeHints(s, a, rng, n - 1) IN
         IF x \in Unknowns(a) /\ Feasible(s, a, rng, x) # rng[x]
         THEN Append(rest, RangeConstraint(x, Feasible(s, a, rng, x)))
         ELSE rest

Solve(s, a, rng) ==
    LET U == Unknowns(a) IN
    IF U = {} THEN (IF a.k = 0 THEN EvalOk(<<>>) ELSE EvalErr)
    ELSE IF Cardinality(U) = 1
    THEN LET x == CHOOSE v \in U : TRUE IN
         EvalOk(<<Assignment(x, FMul(FNeg(a.k), FInv(a.c[x])))>>)
    ELSE IF \E x \in U : Feasible(s, a, rng, x) = {} THEN EvalErr
    ELSE EvalOk(RangeHints(s, a, rng, Len(VarSeq(s))))

\* The range constraints of the row pair at local row i.
PairRanges(s, d, i) == [v \in Vars(s) |-> CellOf(d, i, v).range]

\* IdentityProcessor::process_identity on a polynomial identity.  A NonLinear
\* evaluation is no error: it yields no constraint and is retried later.
IdentityProcessorProcessIdentity(s, d, e, i, zero) ==
    LET a == Evaluate(s, d, e, i, zero) IN
    IF a.nl THEN EvalOk(<<>>) ELSE Solve(s, a, PairRanges(s, d, i))

(***************************************************************************)
(* The outer query: left-hand side of the caller (affine expressions over  *)
(* the caller's columns), right-hand side over this machine's columns.     *)
(***************************************************************************)
OuterLeft(s) ==
    CASE s = "outer" -> <<AffConst(s, 3), AffVar(s, <<"B", FALSE>>)>>
      [] s = "outerbad" -> <<AffConst(s, 3), AffConst(s, 4)>>
      [] s = "outerunsat" -> <<AffConst(s, 4)>>
      [] OTHER -> <<AffVar(s, <<"B", FALSE>>)>>

OuterRight(s) ==
    CASE s = "outer" -> <<Ref("a"), Ref("b")>>
      [] s = "outerbad" -> <<Ref("a"), Ref("a")>>
      [] s = "outerunsat" -> <<Ref("a")>>
      [] OTHER -> <<Ref("b")>>

\* IdentityProcessor::process_link: solve left[j] - right[j] = 0 for every j
\* against the same row pair and combine the constraints.
RECURSIVE ProcessLink(_, _, _, _, _, _)
ProcessLink(s, d, left, right, i, n) ==
    IF n = 0 THEN EvalOk(<<>>)
    ELSE LET rest == ProcessLink(s, d, left, right, i, n - 1)
             r == Evaluate(s, d, right[n], i, FALSE)
             one == IF r.nl THEN EvalOk(<<>>)
                    ELSE Solve(s, AffSub(s, left[n], r), PairRanges(s, d, i)) IN
         IF rest.err \/ one.err THEN EvalErr
         ELSE EvalOk(rest.cons \o one.cons)

(***************************************************************************)
(* RowUpdater::apply_update on the row pair at local row i.                *)
(* An assignment to a known cell of a different value is an inconsistency  *)
(* (conflict); a range constraint is intersected with the cell's range.    *)
(***************************************************************************)
SetCell(d, i, v, cell) ==
    [d EXCEPT ![IF v[2] THEN i + 1 ELSE i][v[1]] = cell]

RowUpdaterApplyUpdate(d, i, con) ==
    LET cell == CellOf(d, i, con.var) IN
    IF con.assign
    THEN IF cell.known /\ cell.value # con.value
         THEN [data |-> d, conflict |-> TRUE]
         ELSE [data |-> SetCell(d, i, con.var,
                                [cell EXCEPT !.known = TRUE, !.value = con.value]),
               conflict |-> FALSE]
    ELSE [data |-> SetCell(d, i, con.var,
                           [cell EXCEPT !.range = @ \cap con.range]),
          conflict |-> FALSE]

(***************************************************************************)
(* BlockProcessor::apply_updates.                                          *)
(* st = [data, oq, panic, conflict]; the loop over updates.constraints.    *)
(***************************************************************************)
AssignLeft(left, v, val) == [j \in 1 .. Len(left) |-> AffAssign(left[j], v, val)]

\* Faulty variant: an assignment to an owned cell is written without consulting the
\* row updater, whatever the cell holds.
ApplyOneOverwrite(s, st, i, con) ==
    IF st.panic THEN st
    ELSE IF con.var[1] \in Owned(s)
    THEN IF con.assign
         THEN [st EXCEPT !.data = SetCell(@, i, con.var,
                  [CellOf(st.data, i, con.var) EXCEPT !.known = TRUE,
                                                      !.value = con.value])]
         ELSE [st EXCEPT !.data = RowUpdaterApplyUpdate(@, i, con).data]
    ELSE IF con.assign
    THEN IF st.oq.set
         THEN [st EXCEPT !.oq.left = AssignLeft(@, con.var, con.value)]
         ELSE [st EXCEPT !.panic = TRUE]
    ELSE st

\* Faulty variant: an assignment to an owned cell replaces the cell by a fresh known
\* cell, dropping the range constraint it had.
ApplyOneResetsRange(s, st, i, con) ==
    IF st.panic THEN st
    ELSE IF con.var[1] \in Owned(s)
    THEN LET u == RowUpdaterApplyUpdate(st.data, i, con) IN
         IF con.assign /\ ~u.conflict
         THEN [st EXCEPT !.data = SetCell(@, i, con.var,
                  [known |-> TRUE, value |-> con.value, range |-> Field])]
         ELSE [st EXCEPT !.data = u.data, !.panic = u.conflict,
                         !.conflict = u.conflict]
    ELSE IF con.assign
    THEN IF st.oq.set
         THEN [st EXCEPT !.oq.left = AssignLeft(@, con.var, con.value)]
         ELSE [st EXCEPT !.panic = TRUE]
    ELSE st

ApplyOne(s, st, i, con) ==
    IF st.panic THEN st
    ELSE IF con.var[1] \in Owned(s)
    THEN LET u == RowUpdaterApplyUpdate(st.data, i, con) IN
         [st EXCEPT !.data = u.data, !.panic = u.conflict, !.conflict = u.conflict]
    ELSE IF con.assign
    THEN IF st.oq.set
         THEN [st EXCEPT !.oq.left = AssignLeft(@, con.var, con.value)]
         ELSE [st EXCEPT !.panic = TRUE]
    ELSE st

\* Faulty variant: only the first of the updates is applied.
ApplyLoopFirstOnly(s, st, i, cons, n) ==
    IF n = 0 THEN st ELSE ApplyOne(s, st, i, cons[1])

RECURSIVE ApplyLoop(_, _, _, _, _)
ApplyLoop(s, st, i, cons, n) ==
    IF n = 0 THEN st
    ELSE ApplyOne(s, ApplyLoop(s, st, i, cons, n - 1), i, cons[n])

\* Faulty variant: progress is reported only when the updates changed something.
ApplyUpdatesProgressIfChanged(s, d, oq, i, cons) ==
    LET st == ApplyLoop(s, [data |-> d, oq |-> oq, panic |-> FALSE,
                            conflict |-> FALSE], i, cons, Len(cons)) IN
    [data |-> st.data, oq |-> st.oq, panic |-> st.panic,
     conflict |-> st.conflict, progress |-> (st.data # d \/ st.oq # oq)]

\* Faulty variant: the early return for an empty set of updates is missing.
ApplyUpdatesAlwaysProgress(s, d, oq, i, cons) ==
    LET st == ApplyLoop(s, [data |-> d, oq |-> oq, panic |-> FALSE,
                            conflict |-> FALSE], i, cons, Len(cons)) IN
    [data |-> st.data, oq |-> st.oq, panic |-> st.panic,
     conflict |-> st.conflict, progress |-> TRUE]

ApplyUpdates(s, d, oq, i, cons) ==
    IF cons = <<>>
    THEN [data |-> d, oq |-> oq, panic |-> FALSE, conflict |-> FALSE,
          progress |-> FALSE]
    ELSE LET st == ApplyLoop(s, [data |-> d, oq |-> oq, panic |-> FALSE,
                                 conflict |-> FALSE], i, cons, Len(cons)) IN
         [data |-> st.data, oq |-> st.oq, panic |-> st.panic,
          conflict |-> st.conflict, progress |-> TRUE]

(***************************************************************************)
(* The three kinds of step.  Each returns                                  *)
(*   [err, panic, conflict, data, oq, progress, cons, outer].              *)
(***************************************************************************)
StepResult(err, ap, cons, outer) ==
    [err |-> err, panic |-> ap.panic, conflict |-> ap.conflict, data |-> ap.data,
     oq |-> ap.oq, progress |-> ap.progress, cons |-> cons, outer |-> outer]

Untouched(d, oq) ==
    [data |-> d, oq |-> oq, panic |-> FALSE, conflict |-> FALSE, progress |-> FALSE]

\* The row pair of a step is (data[row_index], data[row_index + 1]): on the
\* last row of data the index row_index + 1 is out of bounds and panics.
OutOfBounds(d, row_index) == row_index + 1 \notin DOMAIN d
IndexPanic(d, oq) ==
    StepResult(FALSE, [Untouched(d, oq) EXCEPT !.panic = TRUE], <<>>, <<>>)

\* The table with row 0 repeated after the last row, and back.
Unrolled(d) ==
    LET n == Cardinality(DOMAIN d) IN [i \in 0 .. n |-> d[i % n]]
Rolled(d, u) ==
    LET n == Cardinality(DOMAIN d) IN
    [i \in 0 .. n - 1 |-> IF i = 0 /\ u[n] # d[0] THEN u[n] ELSE u[i]]

\* Faulty variant: the updates of an identity are computed and then discarded.
ProcessIdentityDiscards(s, d, oq, row_index, identity_index) ==
    IF OutOfBounds(d, row_index) THEN IndexPanic(d, oq) ELSE
    LET updates == IdentityProcessorProcessIdentity(
                       s, d, Identities(s)[identity_index], row_index, FALSE) IN
    IF updates.err THEN StepResult(TRUE, Untouched(d, oq), <<>>, <<>>)
    ELSE StepResult(FALSE, Untouched(d, oq), <<>>, <<>>)

\* Faulty variant: an error of the identity processor is taken for "no updates".
ProcessIdentityIgnoresError(s, d, oq, row_index, identity_index) ==
    IF OutOfBounds(d, row_index) THEN IndexPanic(d, oq) ELSE
    LET updates == IdentityProcessorProcessIdentity(
                       s, d, Identities(s)[identity_index], row_index, FALSE) IN
    StepResult(FALSE, ApplyUpdates(s, d, oq, row_index, updates.cons),
               updates.cons, <<>>)

\* Faulty variant: the row after the last row is row 0.
ProcessIdentityWraps(s, d, oq, row_index, identity_index) ==
    LET u == Unrolled(d)
        updates == IdentityProcessorProcessIdentity(
                       s, u, Identities(s)[identity_index], row_index, FALSE) IN
    IF updates.err THEN StepResult(TRUE, Untouched(d, oq), <<>>, <<>>)
    ELSE LET ap == ApplyUpdates(s, u, oq, row_index, updates.cons) IN
         StepResult(FALSE, [ap EXCEPT !.data = Rolled(d, ap.data)],
                    updates.cons, <<>>)

\* BlockProcessor::process_identity
ProcessIdentity(s, d, oq, row_index, identity_index) ==
    IF OutOfBounds(d, row_index) THEN IndexPanic(d, oq) ELSE
    LET updates == IdentityProcessorProcessIdentity(
                       s, d, Identities(s)[identity_index], row_index, FALSE) IN
    IF updates.err THEN StepResult(TRUE, Untouched(d, oq), <<>>, <<>>)
    ELSE StepResult(FALSE, ApplyUpdates(s, d, oq, row_index, updates.cons),
                    updates.cons, <<>>)

\* The constraints on columns that are not in witness_cols.
NotOwned(s, cons) == SelectSeq(cons, LAMBDA con : con.var[1] \notin Owned(s))

\* Faulty variant: without an outer query the step does nothing.
ProcessOuterQuerySkipsNone(s, d, oq, row_index) ==
    IF OutOfBounds(d, row_index) THEN IndexPanic(d, oq)
    ELSE IF ~oq.set THEN StepResult(FALSE, Untouched(d, oq), <<>>, <<>>)
    ELSE LET updates == ProcessLink(s, d, oq.left, OuterRight(s), row_index,
                                    Len(oq.left)) IN
         IF updates.err THEN StepResult(TRUE, Untouched(d, oq), <<>>, <<>>)
         ELSE StepResult(FALSE, ApplyUpdates(s, d, oq, row_index, updates.cons),
                         updates.cons, NotOwned(s, updates.cons))

\* BlockProcessor::process_outer_query; without an outer query it panics.
ProcessOuterQuery(s, d, oq, row_index) ==
    IF OutOfBounds(d, row_index) THEN IndexPanic(d, oq)
    ELSE IF ~oq.set
    THEN StepResult(FALSE, [Untouched(d, oq) EXCEPT !.panic = TRUE], <<>>, <<>>)
    ELSE LET updates == ProcessLink(s, d, oq.left, OuterRight(s), row_index,
                                    Len(oq.left)) IN
         IF updates.err THEN StepResult(TRUE, Untouched(d, oq), <<>>, <<>>)
         ELSE StepResult(FALSE, ApplyUpdates(s, d, oq, row_index, updates.cons),
                         updates.cons, NotOwned(s, updates.cons))

(***************************************************************************)
(* The host query oracle.  The callback returns Option<T>: a host that     *)
(* fails has no error to return and answers None.                          *)
(***************************************************************************)
OracleValues == 7 .. (7 + OracleSpan)
OracleAnswers ==
    {[kind |-> "none", value |-> 0], [kind |-> "fail", value |-> 0]}
    \cup {[kind |-> "some", value |-> v] : v \in OracleValues}

\* QueryProcessor::process_query: a column with a query whose cell in the
\* current row is unknown is asked of the oracle.
Asked(s, d, row_index, col) ==
    col \in QueryCols(s) /\ ~d[row_index][col].known

QueryProcessorProcessQuery(s, d, row_index, col, answers) ==
    IF Asked(s, d, row_index, col) /\ answers[col].kind = "some"
    THEN <<Assignment(<<col, FALSE>>, answers[col].value)>>
    ELSE <<>>

\* Faulty variant: no witness column is taken to be relevant for the machine.
QueryUpdatesNoneRelevant(s, d, row_index, answers, n) == <<>>

\* The loop of process_queries over fixed_data.witness_cols.keys().
RECURSIVE QueryUpdates(_, _, _, _, _)
QueryUpdates(s, d, row_index, answers, n) ==
    IF n = 0 THEN <<>>
    ELSE LET col == WitnessSeq(s)[n]
             rest == QueryUpdates(s, d, row_index, answers, n - 1) IN
         IF col \in Owned(s)
         THEN rest \o QueryProcessorProcessQuery(s, d, row_index, col, answers)
         ELSE rest

\* BlockProcessor::process_queries
ProcessQueries(s, d, oq, row_index, answers) ==
    IF OutOfBounds(d, row_index) THEN IndexPanic(d, oq) ELSE
    LET cons == QueryUpdates(s, d, row_index, answers, Len(WitnessSeq(s))) IN
    StepResult(FALSE, ApplyUpdates(s, d, oq, row_index, cons), cons, <<>>)

(***************************************************************************)
(* The default sequence iterator: it sweeps the row deltas                 *)
(* -1 .. block_size - 1, on each the identities, then the outer query (on  *)
(* its row), then the prover queries, and starts another pass as long as a *)
(* pass reported progress.                                                 *)
(***************************************************************************)
\* DefaultSequenceIterator::new(data.len() - 2, identities.len(), ...)
\* In the program wrap the caller passes data.len() - 1 instead.
BlockSize(s) == IF s = "wrap" THEN DataLen(s) - 1 ELSE DataLen(s) - 2

ActionsAt(s, row_delta) ==
    [j \in 1 .. Len(Identities(s)) |-> <<"InternalIdentity", j>>]
    \o (IF HasOuterQuery(s) /\ row_delta = OuterQueryRowDelta(s)
        THEN << <<"OuterQuery", 0>> >> ELSE <<>>)
    \o << <<"ProverQueries", 0>> >>

\* awaiting: a step was yielded and its progress has not been reported yet.
IteratorNew ==
    [row_delta |-> -1, act |-> 1, progress |-> FALSE, pass |-> 1,
     awaiting |-> FALSE]

\* The position of the step next() yields, or done.
IteratorPosition(s, it) ==
    IF it.act <= Len(ActionsAt(s, it.row_delta))
    THEN [done |-> FALSE, row_delta |-> it.row_delta, act |-> it.act,
          progress |-> it.progress, pass |-> it.pass]
    ELSE IF it.row_delta < BlockSize(s) - 1
    THEN [done |-> FALSE, row_delta |-> it.row_delta + 1, act |-> 1,
          progress |-> it.progress, pass |-> it.pass]
    ELSE IF it.progress
    THEN [done |-> FALSE, row_delta |-> -1, act |-> 1, progress |-> FALSE,
          pass |-> it.pass + 1]
    ELSE [done |-> TRUE, row_delta |-> it.row_delta, act |-> it.act,
          progress |-> FALSE, pass |-> it.pass]

\* ProcessingSequenceIterator::next: the step, and the iterator after it.
IteratorNext(s, it) ==
    LET p == IteratorPosition(s, it) IN
    [done |-> p.done,
     row_delta |-> p.row_delta,
     action |-> IF p.done THEN <<"None", 0>> ELSE ActionsAt(s, p.row_delta)[p.act],
     it |-> [row_delta |-> p.row_delta,
             act |-> IF p.done THEN p.act ELSE p.act + 1,
             progress |-> p.progress, pass |-> p.pass, awaiting |-> ~p.done]]

\* ProcessingSequenceIterator::report_progress
ReportProgress(it, progress) ==
    [it EXCEPT !.progress = @ \/ progress, !.awaiting = FALSE]

(***************************************************************************)
(* The state.                                                              *)
(***************************************************************************)
VARIABLES
    scen,               \* the program the processor was constructed for
    data,               \* BlockProcessor::data, rows 0 .. data.len() - 1
    outer_query,        \* BlockProcessor::outer_query: [set, left]
    marker,             \* the CalldataAvailable type parameter
    pc,                 \* "ready" (constructed), "solving", "done"
    it,                 \* the sequence iterator passed to solve
    outer_assignments,  \* the local outer_assignments of solve
    result,             \* what solve returned: [kind, outer]
    last,               \* the last iteration of the loop of solve
    hostFailed,         \* the host oracle failed on some query
    rerun,              \* solve was called again: [again, complete]
    oracleLog,          \* the answers the host oracle has given so far
    mock,               \* a call of Machine::try_new of the mock backend
    air,                \* a PowdrCircuit of the plonky3 adapter
    ast,                \* a function definition of the parsed AST
    checked,            \* what check_constraints returned, if it was called
    finished            \* what finish returned, if it was called

vars == <<scen, data, outer_query, marker, pc, it, outer_assignments, result,
          last, hostFailed, rerun, oracleLog, mock, air, ast, checked, finished>>

\* The block processor, and the backends.
blockVars == <<scen, data, outer_query, marker, pc, it, outer_assignments, result,
               last, hostFailed, rerun, oracleLog, checked, finished>>
backendVars == <<mock, air>>

\* check_constraints and finish were not called.
NoCheck == [kind |-> "none"]
NotFinished == [kind |-> "none"]
\* No function definition.
AstIdle == [state |-> "idle"]

\* No call of Machine::try_new, no circuit.
MockIdle == [call |-> "idle"]
AirIdle == [state |-> "idle"]

NoStep ==
    [kind |-> "none", row |-> 0, idx |-> 0, cons |-> <<>>, outer |-> <<>>,
     progress |-> FALSE, reported |-> FALSE, failed |-> FALSE, panicked |-> FALSE,
     conflict |-> FALSE, changed |-> FALSE, nonlinear |-> FALSE, asked |-> {},
     answers |-> <<>>]

\* BlockProcessor::new on fresh rows, and a new sequence iterator.
BlockInit ==
    /\ scen \in Scenarios
    /\ data = [i \in 0 .. DataLen(scen) - 1 |-> FreshRow(scen)]
    /\ outer_query = [set |-> FALSE, left |-> <<>>]
    /\ marker = "WithoutCalldata"
    /\ pc = "ready"
    /\ it = IteratorNew
    /\ outer_assignments = <<>>
    /\ result = [kind |-> "none", outer |-> <<>>]
    /\ last = NoStep
    /\ hostFailed = FALSE
    /\ rerun = [again |-> FALSE, complete |-> FALSE]
    /\ oracleLog = {}
    /\ checked = NoCheck
    /\ finished = NotFinished

Init ==
    /\ BlockInit
    /\ mock = MockIdle
    /\ air = AirIdle
    /\ ast = AstIdle

\* Faulty variant: the processor changes its type and keeps no outer query.
WithOuterQueryDropsQuery ==
    /\ pc = "ready"
    /\ marker = "WithoutCalldata"
    /\ HasOuterQuery(scen)
    /\ marker' = "WithCalldata"
    /\ UNCHANGED <<scen, data, outer_query, pc, it, outer_assignments, result, last,
                   hostFailed, rerun, oracleLog, mock, air, ast, checked, finished>>

\* BlockProcessor::with_outer_query
WithOuterQuery ==
    /\ pc = "ready"
    /\ marker = "WithoutCalldata"
    /\ HasOuterQuery(scen)
    /\ outer_query' = [set |-> TRUE, left |-> OuterLeft(scen)]
    /\ marker' = "WithCalldata"
    /\ UNCHANGED <<scen, data, pc, it, outer_assignments, result, last, hostFailed,
                   rerun, oracleLog, mock, air, ast, checked, finished>>

\* Faulty variant: a step that fails is skipped and the loop goes on.
IterationSwallowsError(n, r, nonlinear, asked, answers) ==
    /\ last' = [kind |-> n.action[1], row |-> 1 + n.row_delta, idx |-> n.action[2],
                cons |-> r.cons, outer |-> r.outer, progress |-> r.progress,
                reported |-> ~r.panic,
                failed |-> r.err, panicked |-> r.panic, conflict |-> r.conflict,
                changed |-> (r.data # data \/ r.oq # outer_query),
                nonlinear |-> nonlinear, asked |-> asked, answers |-> answers]
    /\ data' = r.data
    /\ outer_query' = r.oq
    /\ IF r.panic
       THEN /\ pc' = "done"
            /\ result' = [kind |-> "panic", outer |-> <<>>]
            /\ it' = n.it
            /\ UNCHANGED outer_assignments
       ELSE /\ pc' = "solving"
            /\ outer_assignments' = outer_assignments \o r.outer
            /\ it' = ReportProgress(n.it, r.progress)
            /\ UNCHANGED result
    /\ UNCHANGED <<scen, marker, rerun, mock, air, ast, checked, finished>>

\* Faulty variant: the updates of a step are not written to the table.
IterationKeepsOldTable(n, r, nonlinear, asked, answers) ==
    /\ last' = [kind |-> n.action[1], row |-> 1 + n.row_delta, idx |-> n.action[2],
                cons |-> r.cons, outer |-> r.outer, progress |-> r.progress,
                reported |-> ~r.err /\ ~r.panic,
                failed |-> r.err, panicked |-> r.panic, conflict |-> r.conflict,
                changed |-> (r.data # data \/ r.oq # outer_query),
                nonlinear |-> nonlinear, asked |-> asked, answers |-> answers]
    /\ data' = data
    /\ outer_query' = r.oq
    /\ IF r.err \/ r.panic
       THEN /\ pc' = "done"
            /\ result' = [kind |-> IF r.err THEN "err" ELSE "panic", outer |-> <<>>]
            /\ it' = n.it
            /\ UNCHANGED outer_assignments
       ELSE /\ pc' = "solving"
            /\ outer_assignments' = outer_assignments \o r.outer
            /\ it' = ReportProgress(n.it, r.progress)
            /\ UNCHANGED result
    /\ UNCHANGED <<scen, marker, rerun, mock, air, ast, checked, finished>>

\* One iteration of the loop of solve on the step n the iterator yielded,
\* r being what processing the step gave.
Iteration(n, r, nonlinear, asked, answers) ==
    /\ last' = [kind |-> n.action[1], row |-> 1 + n.row_delta, idx |-> n.action[2],
                cons |-> r.cons, outer |-> r.outer, progress |-> r.progress,
                reported |-> ~r.err /\ ~r.panic,
                failed |-> r.err, panicked |-> r.panic, conflict |-> r.conflict,
                changed |-> (r.data # data \/ r.oq # outer_query),
                nonlinear |-> nonlinear, asked |-> asked, answers |-> answers]
    /\ data' = r.data
    /\ outer_query' = r.oq
    /\ IF r.err \/ r.panic
       THEN /\ pc' = "done"
            /\ result' = [kind |-> IF r.err THEN "err" ELSE "panic", outer |-> <<>>]
            /\ it' = n.it
            /\ UNCHANGED outer_assignments
       ELSE /\ pc' = "solving"
            /\ outer_assignments' = outer_assignments \o r.outer
            /\ it' = ReportProgress(n.it, r.progress)
            /\ UNCHANGED result
    /\ UNCHANGED <<scen, marker, rerun, mock, air, ast, checked, finished>>

\* solve is running, within the passes the model follows.
Solving ==
    /\ pc \in {"ready", "solving"}
    /\ IteratorPosition(scen, it).pass <= MaxPasses

\* Action::InternalIdentity(identity_index)
StepInternalIdentity ==
    /\ Solving
    /\ LET n == IteratorNext(scen, it) IN
       /\ ~n.done
       /\ n.action[1] = "InternalIdentity"
       /\ Iteration(n, ProcessIdentity(scen, data, outer_query, 1 + n.row_delta,
                                       n.action[2]),
                    IF OutOfBounds(data, 1 + n.row_delta) THEN FALSE
                    ELSE Evaluate(scen, data, Identities(scen)[n.action[2]],
                                  1 + n.row_delta, FALSE).nl,
                    {}, <<>>)
    /\ UNCHANGED <<hostFailed, oracleLog>>

\* Action::OuterQuery
StepOuterQuery ==
    /\ Solving
    /\ LET n == IteratorNext(scen, it) IN
       /\ ~n.done
       /\ n.action[1] = "OuterQuery"
       /\ Iteration(n, ProcessOuterQuery(scen, data, outer_query, 1 + n.row_delta),
                    FALSE, {}, <<>>)
    /\ UNCHANGED <<hostFailed, oracleLog>>

\* Action::ProverQueries; the host answers every query that is asked.
StepProverQueries ==
    /\ Solving
    /\ LET n == IteratorNext(scen, it) IN
       /\ ~n.done
       /\ n.action[1] = "ProverQueries"
       /\ LET asked == {col \in Owned(scen) :
                            Asked(scen, data, 1 + n.row_delta, col)} IN
          \E answers \in [asked -> OracleAnswers] :
            /\ Iteration(n, ProcessQueries(scen, data, outer_query,
                                           1 + n.row_delta, answers),
                         FALSE, asked, answers)
            /\ hostFailed' =
                 (hostFailed \/ \E col \in asked : answers[col].kind = "fail")
            /\ oracleLog' = oracleLog \cup {answers[col] : col \in asked}

\* Faulty variant: solve refuses to return a table with unknown cells.
SolveReturnIfComplete ==
    /\ Solving
    /\ IteratorNext(scen, it).done
    /\ pc' = "done"
    /\ result' = IF \A i \in DOMAIN data : \A col \in Owned(scen) :
                       data[i][col].known
                 THEN [kind |-> "ok", outer |-> outer_assignments]
                 ELSE [kind |-> "incomplete", outer |-> <<>>]
    /\ last' = [NoStep EXCEPT !.kind = "end"]
    /\ UNCHANGED <<scen, data, outer_query, marker, it, outer_assignments,
                   hostFailed, rerun, oracleLog, mock, air, ast, checked, finished>>

\* The iterator is exhausted: Ok(outer_assignments).
SolveReturn ==
    /\ Solving
    /\ IteratorNext(scen, it).done
    /\ pc' = "done"
    /\ result' = [kind |-> "ok", outer |-> outer_assignments]
    /\ last' = [NoStep EXCEPT !.kind = "end"]
    /\ UNCHANGED <<scen, data, outer_query, marker, it, outer_assignments,
                   hostFailed, rerun, oracleLog, mock, air, ast, checked, finished>>

\* Faulty variant: the second solve starts from fresh rows.
SolveAgainOnFreshRows ==
    /\ pc = "done"
    /\ result.kind = "ok"
    /\ ~rerun.again
    /\ rerun' = [again |-> TRUE,
                 complete |-> \A i \in DOMAIN data : \A col \in Owned(scen) :
                                 data[i][col].known]
    /\ pc' = "ready"
    /\ it' = IteratorNew
    /\ outer_assignments' = <<>>
    /\ result' = [kind |-> "none", outer |-> <<>>]
    /\ last' = NoStep
    /\ data' = [i \in DOMAIN data |-> FreshRow(scen)]
    /\ checked' = NoCheck
    /\ UNCHANGED <<scen, outer_query, marker, hostFailed, oracleLog, mock, air, ast,
                   finished>>

\* solve is called a second time on the processor, with a new sequence
\* iterator, after it returned successfully.
SolveAgain ==
    /\ pc = "done"
    /\ result.kind = "ok"
    /\ ~rerun.again
    /\ rerun' = [again |-> TRUE,
                 complete |-> \A i \in DOMAIN data : \A col \in Owned(scen) :
                                 data[i][col].known]
    /\ pc' = "ready"
    /\ it' = IteratorNew
    /\ outer_assignments' = <<>>
    /\ result' = [kind |-> "none", outer |-> <<>>]
    /\ last' = NoStep
    /\ checked' = NoCheck
    /\ UNCHANGED <<scen, data, outer_query, marker, hostFailed, oracleLog, mock,
                   air, ast, finished>>

\* The table read cyclically: row data.len() is row 0.
Cyclic(s, d) == [i \in 0 .. DataLen(s) |-> d[i % DataLen(s)]]

\* The nested loops of check_constraints over the rows 0 .. rows - 1 of the
\* table d and the identities, k evaluations having been made: the first
\* error returns.  evaluated lists the (row, identity) pairs processed.
RECURSIVE CheckConstraintsFrom(_, _, _, _, _)
CheckConstraintsFrom(s, d, rows, k, evaluated) ==
    LET n == Len(Identities(s)) IN
    IF n = 0 \/ k >= rows * n
    THEN [kind |-> "ok", row |-> 0, idx |-> 0, evaluated |-> evaluated]
    ELSE LET i == k \div n
             j == (k % n) + 1
             r == IdentityProcessorProcessIdentity(s, d, Identities(s)[j], i, TRUE)
         IN
         IF r.err
         THEN [kind |-> "err", row |-> i, idx |-> j,
               evaluated |-> Append(evaluated, <<i, j>>)]
         ELSE CheckConstraintsFrom(s, d, rows, k + 1, Append(evaluated, <<i, j>>))

\* Faulty variant: the last row is paired with row 0 and checked as well.
CheckConstraintsWraps(s, d) ==
    CheckConstraintsFrom(s, Cyclic(s, d), Cardinality(DOMAIN d), 0, <<>>)

\* BlockProcessor::check_constraints: for i in 0..(self.data.len() - 1).
CheckConstraints(s, d) ==
    CheckConstraintsFrom(s, d, Cardinality(DOMAIN d) - 1, 0, <<>>)

\* check_constraints is called on the processor after solve returned.
CallCheckConstraints ==
    /\ pc = "done"
    /\ result.kind # "panic"
    /\ checked = NoCheck
    /\ checked' = CheckConstraints(scen, data)
    /\ pc' = "checked"
    /\ last' = [NoStep EXCEPT !.kind = "check"]
    /\ UNCHANGED <<scen, data, outer_query, marker, it, outer_assignments,
                   result, hostFailed, rerun, oracleLog, mock, air, ast, finished>>

\* BlockProcessor::finish of the processor typed m: the data, and for
\* WithCalldata also self.outer_query.unwrap().left.
Finish(m, d, oq) ==
    IF m = "WithoutCalldata" THEN [kind |-> "data", data |-> d, left |-> <<>>]
    ELSE IF oq.set THEN [kind |-> "pair", data |-> d, left |-> oq.left]
    ELSE [kind |-> "panic", data |-> d, left |-> <<>>]

\* finish is called on the processor, which it consumes, before solve or
\* after it, the constraints checked or not.
CallFinish ==
    /\ pc \in {"ready", "done", "checked"}
    /\ result.kind # "panic"
    /\ finished' = Finish(marker, data, outer_query)
    /\ pc' = "finished"
    /\ last' = [NoStep EXCEPT !.kind = "finish"]
    /\ UNCHANGED <<scen, data, outer_query, marker, it, outer_assignments, result,
                   hostFailed, rerun, oracleLog, mock, air, ast, checked>>

Next ==
    \/ SolveAgain
    \/ WithOuterQuery
    \/ StepInternalIdentity
    \/ StepOuterQuery
    \/ StepProverQueries
    \/ SolveReturn
    \/ CallCheckConstraints
    \/ CallFinish

Spec == Init /\ [][Next]_vars

(***************************************************************************)
(* The mock backend: Machine::try_new (backend/src/mock/machine.rs).       *)
(* Its inputs are the witness columns machine_witness_columns selects for  *)
(* the machine (never an empty list: it adds the machine's dummy column),  *)
(* given by their lengths, the sizes for which machine_fixed_columns has a *)
(* set of fixed columns, and the number of stages of the PIL.              *)
(***************************************************************************)
\* Bounds: the number of witness columns, the length of a column, the stages.
MockCols == 2
MockSize == 2
MockStages == 3

\* witness.iter().map(|(_, v)| v.len()).unique()
UniqueLens(lens) == {lens[i] : i \in 1 .. Len(lens)}

\* The witness machine_witness_columns selected, before any later stage.
MockWitness == <<>>

\* witgen_callback.next_stage_witness: the witness it returns is the witness
\* it received extended by the columns of the stage.
NextStageWitness(witness, stage) == Append(witness, stage)

\* for stage in 1..pil.stage_count(): every call receives the witness the
\* call before it returned; the stage is passed as a u8.
RECURSIVE StageLoop(_, _, _, _)
StageLoop(stage, stage_count, witness, calls) ==
    IF stage >= stage_count THEN [witness |-> witness, calls |-> calls]
    ELSE StageLoop(stage + 1, stage_count,
                   NextStageWitness(witness, stage % 256),
                   Append(calls, [stage |-> stage % 256, witness |-> witness]))

\* Faulty variant: a machine of size 0 is constructed like any other.
MachineTryNewKeepsEmpty(lens, fixed_sizes, stage_count) ==
    IF Cardinality(UniqueLens(lens)) # 1
    THEN [kind |-> "panic", size |-> 0, witness |-> MockWitness, calls |-> <<>>]
    ELSE LET size == CHOOSE n \in UniqueLens(lens) : TRUE
             staged == StageLoop(1, stage_count, MockWitness, <<>>) IN
         IF size \notin fixed_sizes
         THEN [kind |-> "panic", size |-> size, witness |-> staged.witness,
               calls |-> staged.calls]
         ELSE [kind |-> "some", size |-> size, witness |-> staged.witness,
               calls |-> staged.calls]

\* Faulty variant: every stage is generated from the first-stage witness.
MachineTryNewStaleWitness(lens, fixed_sizes, stage_count) ==
    IF Cardinality(UniqueLens(lens)) # 1
    THEN [kind |-> "panic", size |-> 0, witness |-> MockWitness, calls |-> <<>>]
    ELSE LET size == CHOOSE n \in UniqueLens(lens) : TRUE
             staged == StageLoop(1, stage_count, MockWitness, <<>>)
             stale == [k \in 1 .. Len(staged.calls) |->
                          [stage |-> staged.calls[k].stage, witness |-> MockWitness]]
         IN
         IF size = 0
         THEN [kind |-> "none", size |-> 0, witness |-> MockWitness, calls |-> <<>>]
         ELSE IF size \notin fixed_sizes
         THEN [kind |-> "panic", size |-> size, witness |-> staged.witness,
               calls |-> stale]
         ELSE [kind |-> "some", size |-> size, witness |-> staged.witness,
               calls |-> stale]

\* Machine::try_new: None, Some(machine of the size), or a panic; calls
\* lists the calls of witgen_callback.next_stage_witness that were made, and
\* witness is the witness the trace values are built from.
MachineTryNew(lens, fixed_sizes, stage_count) ==
    IF Cardinality(UniqueLens(lens)) # 1
    THEN [kind |-> "panic", size |-> 0, witness |-> MockWitness, calls |-> <<>>]
    ELSE LET size == CHOOSE n \in UniqueLens(lens) : TRUE
             staged == StageLoop(1, stage_count, MockWitness, <<>>) IN
         IF size = 0
         THEN [kind |-> "none", size |-> 0, witness |-> MockWitness, calls |-> <<>>]
         ELSE IF size \notin fixed_sizes
         THEN [kind |-> "panic", size |-> size, witness |-> staged.witness,
               calls |-> staged.calls]
         ELSE [kind |-> "some", size |-> size, witness |-> staged.witness,
               calls |-> staged.calls]

\* The block processor is not run.
BlockIdle == BlockInit /\ scen = "fib"

MockInit ==
    /\ BlockIdle
    /\ air = AirIdle
    /\ ast = AstIdle
    /\ \E n \in 1 .. MockCols :
         \E lens \in [1 .. n -> 0 .. MockSize] :
         \E fixed_sizes \in SUBSET (1 .. MockSize) :
         \E stage_count \in 1 .. MockStages :
            mock = [call |-> "pending", lens |-> lens, fixed_sizes |-> fixed_sizes,
                    stage_count |-> stage_count]

\* The call of Machine::try_new.
TryNew ==
    /\ mock.call = "pending"
    /\ mock' = [call |-> "returned", lens |-> mock.lens,
                fixed_sizes |-> mock.fixed_sizes, stage_count |-> mock.stage_count,
                out |-> MachineTryNew(mock.lens, mock.fixed_sizes,
                                      mock.stage_count)]
    /\ UNCHANGED <<blockVars, air, ast>>

MockNext == TryNew

MockSpec == MockInit /\ [][MockNext]_vars

(***************************************************************************)
(* The plonky3 adapter: PowdrCircuit (plonky3/src/lib.rs).                 *)
(* A circuit has the witness and the fixed columns of the PIL, by name, and *)
(* its identities.  The AIR builder that calls eval is modelled by the     *)
(* window it hands out: two consecutive rows of the trace, cyclically.     *)
(***************************************************************************)
\* Bounds: the numbers of witness and fixed columns, the degree, and the
\* number of identities of the PIL.
AirWitness == 2
AirFixed == 2
AirRows == 2
AirIdentities == 2
\* Bound: the number of intermediate columns of the PIL.
AirIntermediates == 1

AirWitnessNames == <<"a", "b", "c", "d">>
AirFixedNames == <<"z", "y", "x", "w">>

\* The value of a column on a row: different for every column and row.
ColumnValue(name, i) ==
    LET all == AirWitnessNames \o AirFixedNames
        k == CHOOSE j \in 1 .. Len(all) : all[j] = name IN
    ((k - 1) * AirRows + i + 1) % FieldModulus

\* iter().position(|(name, _)| *name == r.name).unwrap(), from 0
Position(names, name) ==
    CHOOSE j \in 0 .. Len(names) - 1 :
        /\ names[j + 1] = name
        /\ \A k \in 0 .. j - 1 : names[k + 1] # name

\* poly_id.ptype of a reference
PolynomialType(witness, name) ==
    IF name \in SeqRange(witness) THEN "Committed" ELSE "Constant"

\* Faulty variant: a fixed column is indexed by its position among the fixed
\* columns alone.
ColumnIndexNoOffset(witness, fixed, name) ==
    IF PolynomialType(witness, name) = "Committed"
    THEN Position(witness, name)
    ELSE Position(fixed, name)

\* to_plonky3_expr: the index of a reference in a row of the trace.
ColumnIndex(witness, fixed, name) ==
    IF PolynomialType(witness, name) = "Committed"
    THEN Position(witness, name)
    ELSE Len(witness) + Position(fixed, name)

\* preprocessed_trace: the values of the matrix, row by row.
PreprocessedValues(witness, fixed, len) ==
    LET joined == witness \o fixed
        width == Len(joined) IN
    [k \in 1 .. len * width |->
        ColumnValue(joined[((k - 1) % width) + 1], (k - 1) \div width)]

\* RowMajorMatrix: row r of a matrix of the given width, indexed from 0.
RowSlice(values, width, r) ==
    [j \in 0 .. width - 1 |-> values[r * width + j + 1]]

\* builder.main() on a row: the window of that row and the next one.
MainWindow(values, width, len, r) ==
    <<RowSlice(values, width, r), RowSlice(values, width, (r + 1) % len)>>

\* PowdrCircuit::to_plonky3_expr
RECURSIVE ToPlonky3Expr(_, _, _, _)
ToPlonky3Expr(witness, fixed, e, main) ==
    CASE e[1] = "ref" ->
           LET row == IF e[3] THEN main[2] ELSE main[1] IN
           row[ColumnIndex(witness, fixed, e[2])]
      [] e[1] = "num" -> e[2] % FieldModulus
      [] e[1] = "add" -> FAdd(ToPlonky3Expr(witness, fixed, e[2], main),
                              ToPlonky3Expr(witness, fixed, e[3], main))
      [] e[1] = "sub" -> FSub(ToPlonky3Expr(witness, fixed, e[2], main),
                              ToPlonky3Expr(witness, fixed, e[3], main))
      [] OTHER -> FMul(ToPlonky3Expr(witness, fixed, e[2], main),
                       ToPlonky3Expr(witness, fixed, e[3], main))

\* An identity: its kind, the numbers of expressions of its two sides, whether
\* it has a right selector, and its left selector (<<>> if it has none).
Identity(kind, left_expressions, right_expressions, right_selector, left_selector) ==
    [kind |-> kind, left_expressions |-> left_expressions,
     right_expressions |-> right_expressions, right_selector |-> right_selector,
     left_selector |-> left_selector]

\* The identities a PIL over the given columns can have.
AirIdentityCatalogue(witness, fixed) ==
    LET cols == SeqRange(witness \o fixed)
        first == (witness \o fixed)[1] IN
    {Identity("Polynomial", 0, 0, FALSE, <<"ref", c, n>>) :
        c \in cols, n \in BOOLEAN}
    \cup {Identity("Polynomial", 0, 0, FALSE, Sub(Nxt(c), Add(Ref(first), Num(1)))) :
            c \in cols}
    \cup {Identity("Polynomial", 1, 0, FALSE, Ref(first)),
          Identity("Polynomial", 0, 1, FALSE, Ref(first)),
          Identity("Polynomial", 0, 0, TRUE, Ref(first)),
          Identity("Polynomial", 0, 0, FALSE, <<>>),
          Identity("Plookup", 1, 1, FALSE, <<>>),
          Identity("Permutation", 1, 1, FALSE, <<>>),
          Identity("Connect", 1, 1, FALSE, <<>>)}

\* Faulty variant: an identity that is not a polynomial identity is skipped.
EvalIdentitySkips(witness, fixed, identity, main) ==
    IF identity.kind = "Polynomial"
    THEN IF identity.left_expressions # 0 \/ identity.right_expressions # 0
            \/ identity.right_selector
         THEN [kind |-> "panic", message |-> "assertion failed", value |-> 0]
         ELSE IF identity.left_selector = <<>>
         THEN [kind |-> "panic", message |-> "unwrap on None", value |-> 0]
         ELSE [kind |-> "assert_zero", message |-> "",
               value |-> ToPlonky3Expr(witness, fixed, identity.left_selector, main)]
    ELSE [kind |-> "assert_zero", message |-> "", value |-> 0]

\* The body of the loop of eval on one identity: the constraint it hands to
\* the builder, or the panic it ends in.
EvalIdentity(witness, fixed, identity, main) ==
    IF identity.kind = "Polynomial"
    THEN IF identity.left_expressions # 0 \/ identity.right_expressions # 0
            \/ identity.right_selector
         THEN [kind |-> "panic", message |-> "assertion failed", value |-> 0]
         ELSE IF identity.left_selector = <<>>
         THEN [kind |-> "panic", message |-> "unwrap on None", value |-> 0]
         ELSE [kind |-> "assert_zero", message |-> "",
               value |-> ToPlonky3Expr(witness, fixed, identity.left_selector, main)]
    ELSE [kind |-> "panic", message |-> "not implemented", value |-> 0]

\* BaseAir::width: the witness columns of the circuit are the committed
\* columns of the PIL and its fixed columns the constant columns.
AirWidth(witness, fixed, intermediates) ==
    Len(witness) + Len(fixed) + intermediates

\* A circuit over at least one column, and the row the builder is on.
AirInit ==
    /\ BlockIdle
    /\ mock = MockIdle
    /\ ast = AstIdle
    /\ \E nw \in 0 .. AirWitness : \E nf \in 0 .. AirFixed :
       \E row \in 0 .. AirRows - 1 : \E n \in 1 .. AirIdentities :
       \E intermediates \in 0 .. AirIntermediates :
         LET witness == SubSeq(AirWitnessNames, 1, nw)
             fixed == SubSeq(AirFixedNames, 1, nf) IN
         /\ nw + nf >= 1
         /\ \E identities \in [1 .. n -> AirIdentityCatalogue(witness, fixed)] :
              air = [state |-> "new", witness |-> witness, fixed |-> fixed,
                     degree |-> AirRows, identities |-> identities, row |-> row,
                     width |-> 0, values |-> <<>>, pos |-> 1, asserted |-> <<>>,
                     message |-> "", intermediates |-> intermediates,
                     base_width |-> 0]

\* PowdrCircuit::preprocessed_trace
PreprocessedTrace ==
    /\ air.state = "new"
    /\ air' = [air EXCEPT
                 !.state = "traced",
                 !.width = Len(air.witness) + Len(air.fixed),
                 !.values = PreprocessedValues(air.witness, air.fixed, air.degree)]
    /\ UNCHANGED <<blockVars, mock, ast>>

\* The call of PowdrCircuit::width, once the trace has been built.
CallWidth ==
    /\ air.state = "traced"
    /\ air' = [air EXCEPT
                 !.state = "measured",
                 !.base_width = AirWidth(air.witness, air.fixed, air.intermediates)]
    /\ UNCHANGED <<blockVars, mock, ast>>

\* One iteration of the loop of eval.
EvalStep ==
    /\ air.state \in {"traced", "eval"}
    /\ air.pos <= Len(air.identities)
    /\ LET main == MainWindow(air.values, air.width, air.degree, air.row)
           r == EvalIdentity(air.witness, air.fixed, air.identities[air.pos], main) IN
       air' = IF r.kind = "panic"
              THEN [air EXCEPT !.state = "panic", !.message = r.message]
              ELSE [air EXCEPT !.state = "eval", !.pos = @ + 1,
                               !.asserted = Append(@, r.value)]
    /\ UNCHANGED <<blockVars, mock, ast>>

\* eval returns.
EvalReturn ==
    /\ air.state \in {"traced", "eval"}
    /\ air.pos > Len(air.identities)
    /\ air' = [air EXCEPT !.state = "done"]
    /\ UNCHANGED <<blockVars, mock, ast>>

AirNext ==
    \/ PreprocessedTrace
    \/ CallWidth
    \/ EvalStep
    \/ EvalReturn

AirSpec == AirInit /\ [][AirNext]_vars

(***************************************************************************)
(* The parsed AST (ast/src/parsed/mod.rs): array expressions               *)
(*   <<"Value", v>>, <<"RepeatedValue", v>>, <<"Concat", left, right>>     *)
(* with v a sequence of element expressions, and function definitions      *)
(*   <<"Array", ae>>, <<"Query", e>>, <<"Expression", e>>,                 *)
(*   <<"TypeDeclaration", enum>>.                                          *)
(***************************************************************************)
\* Bounds: the length of a Value or RepeatedValue, the nesting of Concat, and
\* the degree.
AstLen == 2
AstDepth == 2
AstDegree == 4

\* The element expressions e1, e2, ... of a leaf of a given length.
AstLeaves ==
    {<<kind, [i \in 1 .. n |-> i]>> :
        kind \in {"Value", "RepeatedValue"}, n \in 0 .. AstLen}

\* The array expressions with Concat nested at most d deep.
RECURSIVE ArrayExpressions(_)
ArrayExpressions(d) ==
    IF d = 0 THEN AstLeaves
    ELSE LET sub == ArrayExpressions(d - 1) IN
         sub \cup {<<"Concat", l, r>> : l \in sub, r \in AstLeaves}
             \cup {<<"Concat", l, r>> : l \in AstLeaves, r \in sub}

\* ArrayExpression::number_of_repetitions
RECURSIVE NumberOfRepetitions(_)
NumberOfRepetitions(ae) ==
    CASE ae[1] = "RepeatedValue" -> 1
      [] ae[1] = "Value" -> 0
      [] OTHER -> NumberOfRepetitions(ae[2]) + NumberOfRepetitions(ae[3])

\* ArrayExpression::constant_length
RECURSIVE ConstantLength(_)
ConstantLength(ae) ==
    CASE ae[1] = "RepeatedValue" -> 0
      [] ae[1] = "Value" -> Len(ae[2])
      [] OTHER -> ConstantLength(ae[2]) + ConstantLength(ae[3])

\* Faulty variant: the assertion on the length of the literal is missing and
\* the subtraction saturates.
ArraySolveUnchecked(ae, degree) ==
    IF NumberOfRepetitions(ae) > 1
    THEN [kind |-> "panic", value |-> 0,
          message |-> "can be used only once in rhs of array definition"]
    ELSE [kind |-> "ok", message |-> "",
          value |-> IF ConstantLength(ae) <= degree
                    THEN degree - ConstantLength(ae) ELSE 0]

\* ArrayExpression::solve
ArraySolve(ae, degree) ==
    IF NumberOfRepetitions(ae) > 1
    THEN [kind |-> "panic", value |-> 0,
          message |-> "can be used only once in rhs of array definition"]
    ELSE IF ConstantLength(ae) > degree
    THEN [kind |-> "panic", value |-> 0, message |-> "Array literal is too large"]
    ELSE [kind |-> "ok", value |-> degree - ConstantLength(ae), message |-> ""]

\* ArrayExpression::children: the element expressions, left to right.
RECURSIVE ArrayChildren(_)
ArrayChildren(ae) ==
    IF ae[1] = "Concat" THEN ArrayChildren(ae[2]) \o ArrayChildren(ae[3])
    ELSE ae[2]

\* ArrayExpression::last: None is <<>>, Some(e) is <<e>>.
RECURSIVE ArrayLast(_)
ArrayLast(ae) ==
    IF ae[1] = "Concat" THEN ArrayLast(ae[3])
    ELSE IF ae[2] = <<>> THEN <<>> ELSE <<ae[2][Len(ae[2])]>>

\* ArrayExpression::pad_with
PadWith(ae, pad) == <<"Concat", ae, <<"RepeatedValue", <<pad>>>>>>

\* ArrayExpression::pad_with_last: None is <<>>, Some(ae) is <<ae>>.
PadWithLast(ae) ==
    IF ArrayLast(ae) = <<>> THEN <<>> ELSE <<PadWith(ae, ArrayLast(ae)[1])>>

\* The function definitions: the queries and generic expressions are e1.
FunctionDefinitions ==
    {<<"Array", ae>> : ae \in ArrayExpressions(AstDepth)}
    \cup {<<"Query", 1>>, <<"Expression", 1>>, <<"TypeDeclaration", 0>>}

\* impl Children<Expression> for FunctionDefinition: children and
\* children_mut yield the same expressions; todo!() panics.
FunctionChildren(def) ==
    CASE def[1] = "Array" -> [kind |-> "ok", children |-> ArrayChildren(def[2])]
      [] def[1] \in {"Query", "Expression"} ->
           [kind |-> "ok", children |-> <<def[2]>>]
      [] OTHER -> [kind |-> "panic", children |-> <<>>]

\* A function definition, and a degree.
AstInit ==
    /\ BlockIdle
    /\ mock = MockIdle
    /\ air = AirIdle
    /\ \E def \in FunctionDefinitions : \E degree \in 0 .. AstDegree :
         ast = [state |-> "new", def |-> def, degree |-> degree]

\* The call of ArrayExpression::solve.
CallArraySolve ==
    /\ ast.state = "new"
    /\ ast.def[1] = "Array"
    /\ ast' = [state |-> "solved", def |-> ast.def, degree |-> ast.degree,
               out |-> ArraySolve(ast.def[2], ast.degree)]
    /\ UNCHANGED <<blockVars, mock, air>>

\* The call of ArrayExpression::pad_with_last.
CallPadWithLast ==
    /\ ast.state = "new"
    /\ ast.def[1] = "Array"
    /\ ast' = [state |-> "padded", def |-> ast.def, degree |-> ast.degree,
               out |-> PadWithLast(ast.def[2])]
    /\ UNCHANGED <<blockVars, mock, air>>

\* The call of FunctionDefinition::children.
CallChildren ==
    /\ ast.state = "new"
    /\ ast' = [state |-> "children", def |-> ast.def, degree |-> ast.degree,
               out |-> FunctionChildren(ast.def)]
    /\ UNCHANGED <<blockVars, mock, air>>

\* The call of FunctionDefinition::children_mut.
CallChildrenMut ==
    /\ ast.state = "new"
    /\ ast' = [state |-> "children_mut", def |-> ast.def, degree |-> ast.degree,
               out |-> FunctionChildren(ast.def)]
    /\ UNCHANGED <<blockVars, mock, air>>

AstNext ==
    \/ CallArraySolve
    \/ CallPadWithLast
    \/ CallChildren
    \/ CallChildrenMut

AstSpec == AstInit /\ [][AstNext]_vars

(***************************************************************************)
(* Properties.                                                             *)
(***************************************************************************)
StepKinds == {"InternalIdentity", "OuterQuery", "ProverQueries"}
Succeeded == pc = "done" /\ result.kind = "ok"
KnownAs(cell, v) == cell.known /\ cell.value = v


\* C1: for the Fibonacci program of degree 8, solve driven by the default
\* sequence iterator returns successfully with no outer assignments, and then
\* y at row 7 is 34 and x at row 7 is 21.
C1_Fibonacci ==
    (scen = "fib" /\ pc = "done") =>
        /\ result = [kind |-> "ok", outer |-> <<>>]
        /\ KnownAs(data[FibDegree - 1]["y"], 34)
        /\ KnownAs(data[FibDegree - 1]["x"], 21)

\* C1, witness: solve on the Fibonacci program has returned.
C1_Witness == scen = "fib" /\ pc = "done" /\ data[0]["x"].known

\* C2 as claimed: after a successful solve every identity evaluates to 0 on
\* every row r of 0 .. degree - 1 paired with row (r + 1) mod degree.
C2_AllRowsCyclic ==
    Succeeded =>
        \A r \in 0 .. DataLen(scen) - 1 : \A j \in 1 .. Len(Identities(scen)) :
            LET a == Evaluate(scen, Cyclic(scen, data), Identities(scen)[j], r, TRUE)
            IN ~a.nl /\ a.k = 0

\* C2 as amended: after a successful solve driven by the default sequence
\* iterator, every identity whose cells in a non-wrapping row pair (r, r + 1),
\* r in 0 .. len - 2, are all known evaluates to 0 on that pair.
C2_NonWrappingKnown ==
    Succeeded =>
        \A r \in 0 .. DataLen(scen) - 2 : \A j \in 1 .. Len(Identities(scen)) :
            LET a == Evaluate(scen, data, Identities(scen)[j], r, FALSE)
            IN a.nl \/ Unknowns(a) # {} \/ a.k = 0

\* C2, witness: a successful solve with every cell known, on a program whose
\* identities mention the next row.
C2_Witness ==
    /\ Succeeded
    /\ scen = "counter"
    /\ \A i \in DOMAIN data : \A col \in Owned(scen) : data[i][col].known

\* C3: a known cell of an owned column is never overwritten with another
\* value, within a step (a cell assigned by one update of the step still
\* holds that value after the step's later updates) and across steps, and a
\* step that attempts it ends the solve with an error.
C3_KnownCellsImmutable ==
    [][/\ \A i \in DOMAIN data : \A col \in Owned(scen) :
              data[i][col].known => KnownAs(data'[i][col], data[i][col].value)
       /\ ~last'.panicked =>
              \A k \in 1 .. Len(last'.cons) :
                  (last'.cons[k].assign /\ last'.cons[k].var[1] \in Owned(scen))
                  => KnownAs(CellOf(data', last'.row, last'.cons[k].var),
                             last'.cons[k].value)
       /\ last'.conflict => (pc' = "done" /\ result'.kind \in {"err", "panic"})
      ]_vars

\* C3, witness: a step tried to assign a different value to a known cell.
C3_Witness ==
    /\ last.conflict
    /\ \E k \in 1 .. Len(last.cons) :
          /\ last.cons[k].assign
          /\ CellOf(data, last.row, last.cons[k].var).known
          /\ CellOf(data, last.row, last.cons[k].var).value # last.cons[k].value

\* C4: the range constraint of every cell only shrinks.
C4_RangesShrink ==
    [][\A i \in DOMAIN data : \A col \in Witness(scen) :
          data'[i][col].range \subseteq data[i][col].range]_vars

\* C4, witness: a step narrowed the range of a cell, and a cell with a
\* narrowed range was assigned.
C4_Witness ==
    /\ \E k \in 1 .. Len(last.cons) : ~last.cons[k].assign /\ last.changed
    /\ \E i \in DOMAIN data : \E col \in Owned(scen) :
          data[i][col].range # GlobalRange(scen, col)

\* C5 as claimed: no step reports progress = true without changing the table
\* or the left-hand side of the outer query.
C5_ProgressChangesState ==
    (last.reported /\ last.progress) => last.changed

\* C6: solve reports one progress value for every step that does not fail,
\* before it asks for the next step, and the value is true exactly when the
\* step's updates were non-empty.
C6_ProgressReported ==
    /\ (last.kind \in StepKinds /\ ~last.failed /\ ~last.panicked) =>
          /\ last.reported
          /\ ~it.awaiting
          /\ last.progress <=> (last.cons # <<>>)
          /\ last.progress => it.progress
    /\ pc = "solving" => ~it.awaiting

\* C6, witness: a step with updates and a step without were both reported.
C6_Witness ==
    /\ last.kind \in StepKinds
    /\ last.reported
    /\ last.cons = <<>>
    /\ it.progress

\* C7 as claimed: an assignment any step produces to a column that is not
\* owned is substituted into the left-hand side of the outer query and is
\* recorded in the outer assignments.
C7_OuterAssignmentRecorded ==
    (outer_query.set /\ last.kind \in StepKinds /\ last.reported) =>
        \A k \in 1 .. Len(last.cons) :
            (last.cons[k].assign /\ last.cons[k].var[1] \notin Owned(scen)) =>
                /\ \A j \in 1 .. Len(outer_query.left) :
                      outer_query.left[j].c[last.cons[k].var] = 0
                /\ \E m \in 1 .. Len(outer_assignments) :
                      outer_assignments[m] = last.cons[k]

C9_NonLinearDeferred ==
    /\ last.nonlinear =>
          /\ last.reported
          /\ ~last.progress
          /\ ~last.failed
          /\ pc = "solving"
    /\ last.failed => (pc = "done" /\ result.kind = "err")

\* C9, witness: an identity was non-linear in the first pass, solve went on,
\* and in a later pass the same identity fixed a cell.
C9_Witness ==
    /\ scen = "nonlin"
    /\ last.nonlinear
    /\ pc = "solving"
    /\ it.pass > 1
    /\ data[0]["a"].known

\* C10 as claimed: when the host oracle fails during a ProverQueries step,
\* solve stops there and returns an error.
C10_OracleFailureFatal ==
    (last.kind = "ProverQueries"
        /\ \E col \in last.asked : last.answers[col].kind = "fail") =>
        (pc = "done" /\ result.kind = "err")

\* All cells of the owned columns are known.
AllOwnedKnown ==
    \A i \in DOMAIN data : \A col \in Owned(scen) : data[i][col].known

\* C11 as claimed: solve reports success only when every cell of every owned
\* column is known.
C11_SuccessOnlyIfDefinite == Succeeded => AllOwnedKnown

\* C11 as amended: when the sequence iterator finishes and no step failed,
\* solve returns success with the outer assignments collected so far, whether
\* or not cells of owned columns are still unknown; it has no other outcome
\* than success, an error of a step, or a panic.
C11_SuccessWhenIteratorEnds ==
    /\ (pc = "done" /\ last.kind = "end") =>
           result = [kind |-> "ok", outer |-> outer_assignments]
    /\ (pc = "done" /\ last.kind # "end") =>
           (result.kind \in {"err", "panic"} /\ (last.failed \/ last.panicked))

\* C11, witness: solve returned success on the program a * (a - 1) = 0 with
\* every cell of a unknown.
C11_Witness ==
    /\ scen = "bool" /\ Succeeded
    /\ \A i \in DOMAIN data : ~data[i]["a"].known

\* C12: a second solve, with a new sequence iterator, on a table in which
\* every cell is already known reports no progress on any step, changes no
\* cell, and returns success.
C12_Idempotent ==
    (rerun.again /\ rerun.complete) =>
        /\ last.kind \in StepKinds =>
              (~last.progress /\ ~last.changed /\ last.reported /\ last.cons = <<>>)
        /\ pc = "done" => result = [kind |-> "ok", outer |-> <<>>]
        /\ AllOwnedKnown

\* C12, witness: the second solve of the counter, all of whose cells the
\* first solve determined, has returned.
C12_Witness ==
    /\ rerun.again /\ rerun.complete
    /\ scen = "counter" /\ pc = "done" /\ it.pass = 1

\* The orders in which the witness columns can be traversed.
Orders(s) ==
    LET n == Len(WitnessSeq(s)) IN
    {[i \in 1 .. n |-> WitnessSeq(s)[f[i]]] :
        f \in {g \in [1 .. n -> 1 .. n] : \A i, j \in 1 .. n : g[i] = g[j] => i = j}}

\* The updates of process_queries with the columns traversed in a given order.
RECURSIVE QueryUpdatesIn(_, _, _, _, _, _)
QueryUpdatesIn(s, d, row_index, answers, order, n) ==
    IF n = 0 THEN <<>>
    ELSE LET col == order[n]
             rest == QueryUpdatesIn(s, d, row_index, answers, order, n - 1) IN
         IF col \in Owned(s)
         THEN rest \o QueryProcessorProcessQuery(s, d, row_index, col, answers)
         ELSE rest

AlwaysSeven == oracleLog \subseteq {[kind |-> "some", value |-> 7]}

\* C15 as claimed: with a column q that has a prover query and no identities
\* and an oracle that answers 7 to every query, after solve every row of q,
\* the last row included, holds 7.
C15_EveryRowSeven ==
    (scen = "hint" /\ Succeeded /\ AlwaysSeven) =>
        \A i \in DOMAIN data : KnownAs(data[i]["q"], 7)

\* C15 as amended: a ProverQueries step at row i assigns the oracle's answer
\* Some(v) to the cell of row i and leaves the cell unknown, with no update,
\* on the answer None; with an oracle that always answers 7, after solve q
\* holds 7 on every row the iterator yielded, which are all rows but the last
\* row of the table, and the last row of q is unknown.
C15_QueriedRowsSeven ==
    [][/\ last'.kind = "ProverQueries" =>
            \A col \in last'.asked :
                IF last'.answers[col].kind = "some"
                THEN KnownAs(data'[last'.row][col], last'.answers[col].value)
                ELSE /\ ~data'[last'.row][col].known
                     /\ \A k \in 1 .. Len(last'.cons) : last'.cons[k].var[1] # col
       /\ (scen = "hint" /\ pc' = "done" /\ result'.kind = "ok" /\ AlwaysSeven') =>
            /\ \A i \in 0 .. DataLen(scen) - 2 : KnownAs(data'[i]["q"], 7)
            /\ ~data'[DataLen(scen) - 1]["q"].known
      ]_vars

\* C15, witness: solve returned on the program hint after the oracle answered
\* 7 to every query.
C15_Witness ==
    /\ scen = "hint" /\ Succeeded /\ ~rerun.again
    /\ oracleLog = {[kind |-> "some", value |-> 7]}
    /\ KnownAs(data[0]["q"], 7)

\* C16: the updates of a step are applied to the table and to the left-hand
\* side of the outer query before the next step is evaluated: after a step
\* every assignment of the step is the value of its cell, every range
\* constraint bounds the range of its cell, every assignment to a column of
\* the caller is substituted in the left-hand side, and the updates of the
\* step are computed from the table all earlier steps left.
C16_UpdatesVisible ==
    [][(last'.kind \in StepKinds /\ ~last'.panicked /\ ~last'.failed) =>
         /\ \A k \in 1 .. Len(last'.cons) :
               LET con == last'.cons[k] IN
               IF con.var[1] \in Owned(scen)
               THEN IF con.assign
                    THEN KnownAs(CellOf(data', last'.row, con.var), con.value)
                    ELSE CellOf(data', last'.row, con.var).range \subseteq con.range
               ELSE con.assign =>
                      \A j \in 1 .. Len(outer_query'.left) :
                          outer_query'.left[j].c[con.var] = 0
         /\ last'.kind = "InternalIdentity" =>
               last'.cons = IdentityProcessorProcessIdentity(
                                scen, data, Identities(scen)[last'.idx],
                                last'.row, FALSE).cons
         /\ last'.kind = "OuterQuery" =>
               last'.cons = ProcessLink(scen, data, outer_query.left,
                                        OuterRight(scen), last'.row,
                                        Len(outer_query.left)).cons
      ]_vars

\* C16, witness: on row 0 of Fibonacci the identity x' = y assigned x of
\* row 1 from the y an earlier step of the same pass assigned.
C16_Witness ==
    /\ scen = "fib" /\ it.pass = 1
    /\ last.kind = "InternalIdentity" /\ last.row = 0 /\ last.idx = 3
    /\ Len(last.cons) = 1
    /\ KnownAs(data[0]["y"], 1) /\ KnownAs(data[1]["x"], 1)

\* C17: on a processor without an outer query an OuterQuery step fails, it
\* is not skipped: solve ends in a panic with the table as it was; only an
\* OuterQuery step adds to the outer assignments, and a solve whose sequence
\* has no OuterQuery step returns an empty list of outer assignments.
C17_OuterQueryRequired ==
    [][/\ (last'.kind = "OuterQuery" /\ ~outer_query.set) =>
            /\ last'.panicked /\ ~last'.reported /\ data' = data
            /\ pc' = "done" /\ result'.kind = "panic"
       /\ (last'.kind \in StepKinds \ {"OuterQuery"}) =>
            outer_assignments' = outer_assignments
       /\ (pc' = "done" /\ result'.kind = "ok" /\ ~HasOuterQuery(scen)) =>
            result'.outer = <<>>
      ]_vars

\* C17, witness: the iterator yielded an OuterQuery step to a processor that
\* was not given an outer query.
C17_Witness ==
    /\ last.kind = "OuterQuery" /\ ~outer_query.set
    /\ marker = "WithoutCalldata" /\ pc = "done"

\* C18: Machine::try_new returns None exactly when the witness columns of the
\* machine all have length 0; it returns a machine whose size is the common
\* length of the witness columns when that is not 0 and there are fixed
\* columns of that size; it panics when the witness columns differ in
\* length or there are no fixed columns of the size.
C18_TryNew ==
    mock.call = "returned" =>
        LET lens == mock.lens
            same == \A i, j \in 1 .. Len(lens) : lens[i] = lens[j] IN
        /\ mock.out.kind = "none" <=> (\A i \in 1 .. Len(lens) : lens[i] = 0)
        /\ mock.out.kind = "some" =>
              /\ \A i \in 1 .. Len(lens) : lens[i] = mock.out.size
              /\ mock.out.size \in mock.fixed_sizes
        /\ mock.out.kind = "panic" <=>
              (~same \/ (lens[1] # 0 /\ lens[1] \notin mock.fixed_sizes))

\* C18, witness: try_new returned None for a machine with two witness
\* columns of length 0.
C18_Witness ==
    /\ mock.call = "returned" /\ mock.out.kind = "none"
    /\ Len(mock.lens) = 2

\* The value of an expression on a row of the powdr columns, next being the
\* row after it.
RECURSIVE PowdrValue(_, _)
PowdrValue(e, i) ==
    CASE e[1] = "ref" -> ColumnValue(e[2], IF e[3] THEN (i + 1) % AirRows ELSE i)
      [] e[1] = "num" -> e[2] % FieldModulus
      [] e[1] = "add" -> FAdd(PowdrValue(e[2], i), PowdrValue(e[3], i))
      [] e[1] = "sub" -> FSub(PowdrValue(e[2], i), PowdrValue(e[3], i))
      [] OTHER -> FMul(PowdrValue(e[2], i), PowdrValue(e[3], i))

\* C19: the columns of the plonky3 trace are the witness columns followed by
\* the fixed columns: on every row, the value preprocessed_trace places at
\* the index to_plonky3_expr uses for a column is the value of that column,
\* a reference with next reads the second row of the window and one without
\* reads the first, and so every constraint eval hands to the builder is the
\* value of the identity on the powdr columns.
C19_ColumnOrder ==
    air.state \in {"traced", "eval", "done", "panic"} =>
        LET main == MainWindow(air.values, air.width, air.degree, air.row) IN
        /\ air.width = Len(air.witness) + Len(air.fixed)
        /\ \A name \in SeqRange(air.witness \o air.fixed) :
              /\ \A r \in 0 .. air.degree - 1 :
                    RowSlice(air.values, air.width, r)[
                        ColumnIndex(air.witness, air.fixed, name)]
                    = ColumnValue(name, r)
              /\ ToPlonky3Expr(air.witness, air.fixed, Ref(name), main)
                    = ColumnValue(name, air.row)
              /\ ToPlonky3Expr(air.witness, air.fixed, Nxt(name), main)
                    = ColumnValue(name, (air.row + 1) % air.degree)
        /\ \A k \in 1 .. Len(air.asserted) :
              air.asserted[k] = PowdrValue(air.identities[k].left_selector, air.row)

\* C19, witness: eval constrained an identity that reads the second fixed
\* column on the next row, in a circuit with two witness columns.
C19_Witness ==
    /\ air.state = "eval"
    /\ Len(air.witness) = 2 /\ Len(air.fixed) = 2
    /\ air.identities[1].left_selector = Nxt("y")
    /\ Len(air.asserted) = 1

\* A polynomial identity as eval accepts it.
WellFormedPolynomial(identity) ==
    /\ identity.kind = "Polynomial"
    /\ identity.left_expressions = 0 /\ identity.right_expressions = 0
    /\ ~identity.right_selector
    /\ identity.left_selector # <<>>

\* C20: eval accepts polynomial identities only: it constrains the left
\* selector of each to zero, in order, asserting that the identity has no
\* expressions on either side and no right selector; an identity of kind
\* Plookup, Permutation or Connect is not skipped but ends eval with
\* "not implemented".
C20_OnlyPolynomial ==
    /\ air.state \in {"eval", "done", "panic"} =>
          /\ Len(air.asserted) = air.pos - 1
          /\ \A k \in 1 .. air.pos - 1 : WellFormedPolynomial(air.identities[k])
    /\ air.state = "done" => air.pos = Len(air.identities) + 1
    /\ air.state = "panic" =>
          LET identity == air.identities[air.pos] IN
          /\ ~WellFormedPolynomial(identity)
          /\ identity.kind \in {"Plookup", "Permutation", "Connect"}
                <=> air.message = "not implemented"
          /\ (identity.kind = "Polynomial" /\ identity.left_selector # <<>>)
                <=> air.message = "assertion failed"

\* C20, witness: eval constrained a polynomial identity and then failed on a
\* lookup with "not implemented".
C20_Witness ==
    /\ air.state = "panic" /\ air.message = "not implemented"
    /\ air.pos = 2
    /\ air.identities[2].kind = "Plookup"

\* C21: ArrayExpression::solve(degree) returns only when `*` is used at most
\* once and the constant-size parts are not longer than the degree, and then
\* its result plus the combined length of the constant-size parts is the
\* degree; otherwise it fails.
C21_ArraySolve ==
    ast.state = "solved" =>
        LET ae == ast.def[2] IN
        /\ ast.out.kind = "ok" =>
              ast.out.value + ConstantLength(ae) = ast.degree
        /\ ast.out.kind = "panic" <=>
              (NumberOfRepetitions(ae) > 1 \/ ConstantLength(ae) > ast.degree)

\* C21, witness: solve returned the room left for `*` in [e1, e2] + [e1]*
\* of degree 4.
C21_Witness ==
    /\ ast.state = "solved" /\ ast.out.kind = "ok"
    /\ ast.def[2] = <<"Concat", <<"Value", <<1, 2>>>>, <<"RepeatedValue", <<1>>>>>>
    /\ ast.degree = 4 /\ ast.out.value = 2

\* C22 as claimed: pad_with_last returns None if and only if the array
\* expression has no element expressions at all, and otherwise the array
\* concatenated with a repetition of its last element.
C22_PadWithLast ==
    ast.state = "padded" =>
        LET ae == ast.def[2]
            elements == ArrayChildren(ae) IN
        IF elements = <<>>
        THEN ast.out = <<>>
        ELSE ast.out = <<PadWith(ae, elements[Len(elements)])>>

\* C23 as claimed: children() and children_mut() of a function definition
\* that is a type declaration yield no children and do not abort.
C23_EnumNoChildren ==
    (ast.state \in {"children", "children_mut"} /\ ast.def[1] = "TypeDeclaration") =>
        ast.out = [kind |-> "ok", children |-> <<>>]

\* C24 as claimed: for the Fibonacci program of degree 8, after solve the
\* values of y over rows 0..7 are 1,1,2,3,5,8,13,21.
C24_ClaimedY ==
    (scen = "fib" /\ pc = "done") =>
        LET expected == <<1, 1, 2, 3, 5, 8, 13, 21>> IN
        \A r \in 0 .. FibDegree - 1 : KnownAs(data[r]["y"], expected[r + 1])

\* C24 as amended: for the Fibonacci program of degree 8, after solve the
\* values of x over rows 0..7 are 1,1,2,3,5,8,13,21 and the values of y over
\* rows 0..7 are 1,2,3,5,8,13,21,34.
C24_FibonacciY ==
    (scen = "fib" /\ pc = "done") =>
        LET xs == <<1, 1, 2, 3, 5, 8, 13, 21>>
            ys == <<1, 2, 3, 5, 8, 13, 21, 34>> IN
        \A r \in 0 .. FibDegree - 1 :
            /\ KnownAs(data[r]["x"], xs[r + 1])
            /\ KnownAs(data[r]["y"], ys[r + 1])

\* C24, witness: solve on the Fibonacci program has returned with y = 2 on
\* row 1, where the claimed sequence has 1.
C24_Witness ==
    /\ scen = "fib" /\ pc = "done" /\ result.kind = "ok"
    /\ KnownAs(data[1]["y"], 2)

\* C25 as claimed: every entry of the outer assignments returned by solve is
\* an Assignment (not a range constraint) to a column that is not in the
\* machine's witness_cols and was produced by an OuterQuery step, the
\* entries being those accumulated so far in the order of their steps.
C25_OuterAssignmentsOnly ==
    /\ \A i \in 1 .. Len(outer_assignments) :
          /\ outer_assignments[i].assign
          /\ outer_assignments[i].var[1] \notin Owned(scen)
    /\ (last.kind \in StepKinds /\ last.kind # "OuterQuery") => last.outer = <<>>
    /\ Succeeded => result.outer = outer_assignments

\* An identity is unsatisfied on the pair (i, i + 1) of the table d when,
\* with zero for the unknown cells, it evaluates to a non-zero constant.
Unsatisfied(d, i, j) ==
    LET a == Evaluate(scen, d, Identities(scen)[j], i, TRUE) IN ~a.nl /\ a.k # 0

\* C26: check_constraints evaluates the identities on the non-wrapping row
\* pairs (i, i + 1), i in 0 .. len - 2, in row-then-identity order with zero
\* for unknown values, never on the wrapping pair (len - 1, 0); it returns
\* the first error without evaluating what follows, and returns Ok exactly
\* when every identity was evaluated on every such pair and none of them is
\* unsatisfied.
C26_CheckConstraints ==
    checked.kind # "none" =>
        LET n == Len(Identities(scen))
            len == Cardinality(DOMAIN data)
            ev == checked.evaluated IN
        /\ \A k \in 1 .. Len(ev) :
              /\ ev[k] = <<(k - 1) \div n, ((k - 1) % n) + 1>>
              /\ ev[k][1] \in 0 .. len - 2
              /\ k < Len(ev) => ~Unsatisfied(data, ev[k][1], ev[k][2])
        /\ checked.kind = "ok" <=>
              /\ Len(ev) = (len - 1) * n
              /\ \A i \in 0 .. len - 2 : \A j \in 1 .. n : ~Unsatisfied(data, i, j)
        /\ checked.kind = "err" <=>
              /\ Len(ev) > 0
              /\ ev[Len(ev)] = <<checked.row, checked.idx>>
              /\ Unsatisfied(data, checked.row, checked.idx)

\* C26, witness: check_constraints returned Ok on a table whose wrapping pair
\* (len - 1, 0) leaves an identity unsatisfied.
C26_Witness ==
    /\ checked.kind = "ok"
    /\ \E j \in 1 .. Len(Identities(scen)) :
          Unsatisfied(Cyclic(scen, data), Cardinality(DOMAIN data) - 1, j)

\* C26, second case: check_constraints returned the first error, later pairs
\* left unevaluated.
C26_WitnessError ==
    /\ checked.kind = "err"
    /\ Len(checked.evaluated) <
          (Cardinality(DOMAIN data) - 1) * Len(Identities(scen))

\* C27: Machine::try_new generates the later-stage witnesses in ascending
\* stage order 1, 2, ..., stage_count - 1, exactly once per stage, each call
\* receiving the witness the call of the previous stage returned (the first
\* one the witness of the machine), and the machine is built from the
\* witness the last call returned; for an empty machine (size 0), the witgen
\* callback is never invoked.
C27_StagesInOrder ==
    mock.call = "returned" =>
        LET calls == mock.out.calls
            lens == mock.lens
            same == \A i, j \in 1 .. Len(lens) : lens[i] = lens[j] IN
        /\ (same /\ lens[1] = 0) => (mock.out.kind = "none" /\ calls = <<>>)
        /\ (same /\ lens[1] # 0) =>
              /\ Len(calls) = mock.stage_count - 1
              /\ \A k \in 1 .. Len(calls) :
                    /\ calls[k].stage = k
                    /\ calls[k].witness =
                          IF k = 1 THEN MockWitness
                          ELSE NextStageWitness(calls[k - 1].witness, k - 1)
              /\ mock.out.witness =
                    IF calls = <<>> THEN MockWitness
                    ELSE NextStageWitness(calls[Len(calls)].witness, Len(calls))

\* C27, witness: try_new returned a machine of a PIL with three stages, the
\* callback having generated stage 1 and then stage 2.
C27_Witness ==
    /\ mock.call = "returned" /\ mock.out.kind = "some"
    /\ mock.stage_count = 3
    /\ Len(mock.out.calls) = 2
    /\ mock.out.calls[2].witness # MockWitness

\* C28: in every reachable state a processor typed WithCalldata has an outer
\* query set and a processor typed WithoutCalldata has none; the type changes
\* only from WithoutCalldata to WithCalldata, by with_outer_query, which sets
\* the outer query and leaves the data and the rest of the processor as they
\* were; finish on a WithCalldata processor does not fail and returns the
\* data with the left-hand side of the outer query as the steps left it, and
\* finish on a WithoutCalldata processor returns the data.
C28_MarkerMatchesQuery ==
    /\ [](/\ (marker = "WithCalldata") <=> outer_query.set
          /\ finished.kind # "none" =>
                finished = IF marker = "WithCalldata"
                           THEN [kind |-> "pair", data |-> data,
                                 left |-> outer_query.left]
                           ELSE [kind |-> "data", data |-> data, left |-> <<>>])
    /\ [][marker' # marker =>
             /\ marker = "WithoutCalldata" /\ marker' = "WithCalldata"
             /\ outer_query' = [set |-> TRUE, left |-> OuterLeft(scen)]
             /\ UNCHANGED <<scen, data, pc, it, outer_assignments, result>>]_vars

\* C28, witness: finish on a WithCalldata processor returned, after solve, a
\* left-hand side that the outer query steps have changed.
C28_Witness ==
    /\ marker = "WithCalldata"
    /\ finished.kind = "pair"
    /\ result.kind = "ok"
    /\ finished.left # OuterLeft(scen)

\* C29 as claimed: the width the plonky3 circuit reports (commitment_count +
\* constant_count + intermediate_count) equals the width of the matrix
\* preprocessed_trace returns (witness columns + fixed columns), also for
\* programs with intermediate columns.
C29_WidthsAgree ==
    air.state = "measured" => air.base_width = air.width

====
